---- MODULE Spec2Model ----
(***************************************************************************)
(* Model of src/main.py: the crawler (crawl_and_scrape), the content       *)
(* extractor (extract_content), the crawl triggers (auto_crawl_on_startup, *)
(* force_crawl, api_crawl), and the HTTP handlers that touch the corpus    *)
(* (crawled_data, crawled_images, crawl_status) and the image directory.   *)
(*                                                                         *)
(* Strings are sequences of tokens.  A URL such as https://kako.mn/a#f is  *)
(* <<"https:", "//", "kako.mn", "/", "a", "#", "f">>; the prefix test      *)
(* str.startswith, str.split("#") and urllib's urlparse / urljoin work on  *)
(* these sequences as they work on the characters.  The token alphabet     *)
(* has no "?", ";", "." or ".." tokens.                                    *)
(***************************************************************************)
EXTENDS Integers, Sequences, FiniteSets, TLC

\* ------------------------------------------------------------------------
\* Configuration (src/main.py 30-38)
\* ------------------------------------------------------------------------

\* ROOT_URL = os.getenv("ROOT_URL", "https://kako.mn/")
ROOT_URL == <<"https:", "//", "kako.mn", "/">>

\* MAX_CRAWL_PAGES = int(os.getenv("MAX_CRAWL_PAGES", "500")); a small budget
\* here so that the budget is reached by the site of the model.
MAX_CRAWL_PAGES == 3

\* ------------------------------------------------------------------------
\* String helpers (Python str operations on token sequences)
\* ------------------------------------------------------------------------

Range(s) == {s[i] : i \in 1..Len(s)}

\* index of the first token of s that is in toks, Len(s)+1 when there is none
FirstOf(s, toks) ==
    IF \E i \in 1..Len(s) : s[i] \in toks
    THEN CHOOSE i \in 1..Len(s) : s[i] \in toks /\ \A j \in 1..(i-1) : s[j] \notin toks
    ELSE Len(s) + 1

\* index of the last token of s equal to tok, 0 when there is none
LastOf(s, tok) ==
    IF \E i \in 1..Len(s) : s[i] = tok
    THEN CHOOSE i \in 1..Len(s) : s[i] = tok /\ \A j \in (i+1)..Len(s) : s[j] # tok
    ELSE 0

\* s.startswith(p)
StartsWith(s, p) == Len(p) <= Len(s) /\ SubSeq(s, 1, Len(p)) = p

\* sub in s, for a sequence of tokens sub
Contains(s, sub) ==
    \E i \in 0..(Len(s) - Len(sub)) : SubSeq(s, i + 1, i + Len(sub)) = sub

\* s.split("#")[0]
SplitHash(s) == SubSeq(s, 1, FirstOf(s, {"#"}) - 1)

\* ------------------------------------------------------------------------
\* urllib.parse (urlparse, urlunparse, urljoin) as called by the source
\* ------------------------------------------------------------------------

Schemes == {"https:", "http:"}

\* urlparse(s, scheme=default): scheme, netloc, path, fragment.  bad is TRUE
\* where urlsplit raises ValueError("Invalid IPv6 URL"): a netloc with one
\* bracket and not the other.
urlparse(s, default) ==
    LET hasScheme == Len(s) > 0 /\ s[1] \in Schemes
        scheme    == IF hasScheme THEN s[1] ELSE default
        r1        == IF hasScheme THEN Tail(s) ELSE s
        hasNet    == Len(r1) > 0 /\ r1[1] = "//"
        r2        == IF hasNet THEN Tail(r1) ELSE r1
        netEnd    == IF hasNet THEN FirstOf(r2, {"/", "#"}) ELSE 1
        netloc    == SubSeq(r2, 1, netEnd - 1)
        r3        == SubSeq(r2, netEnd, Len(r2))
        hashAt    == FirstOf(r3, {"#"})
    IN  [scheme   |-> scheme,
         netloc   |-> netloc,
         path     |-> SubSeq(r3, 1, hashAt - 1),
         fragment |-> SubSeq(r3, hashAt + 1, Len(r3)),
         bad      |-> ("[" \in Range(netloc)) # ("]" \in Range(netloc))]

\* urlunparse((scheme, netloc, path, '', '', fragment))
urlunparse(scheme, netloc, path, fragment) ==
    LET withNet == IF netloc # <<>> \/ (scheme # "" /\ ~StartsWith(path, <<"//">>))
                   THEN <<"//">> \o netloc
                        \o (IF path # <<>> /\ path[1] # "/" THEN <<"/">> ELSE <<>>)
                        \o path
                   ELSE path
        withScheme == IF scheme # "" THEN <<scheme>> \o withNet ELSE withNet
    IN  IF fragment # <<>> THEN withScheme \o <<"#">> \o fragment ELSE withScheme

\* the directory part of a base path: bpath.split('/') without its last part
BaseDir(bpath) == IF bpath = <<>> THEN <<"/">> ELSE SubSeq(bpath, 1, LastOf(bpath, "/"))

\* urljoin raises exactly where urlparse of one of its arguments raises
urljoinRaises(base, url) ==
    base # <<>> /\ url # <<>> /\ (urlparse(base, "").bad \/ urlparse(url, "").bad)

\* urljoin(base, url)
urljoin(base, url) ==
    IF base = <<>> THEN url
    ELSE IF url = <<>> THEN base
    ELSE LET b == urlparse(base, "")
             u == urlparse(url, b.scheme)
         IN  IF u.scheme # b.scheme THEN url
             ELSE IF u.netloc # <<>>
                  THEN urlunparse(u.scheme, u.netloc, u.path, u.fragment)
             ELSE IF u.path = <<>>
                  THEN urlunparse(u.scheme, b.netloc, b.path, u.fragment)
             ELSE IF u.path[1] = "/"
                  THEN urlunparse(u.scheme, b.netloc, u.path, u.fragment)
             ELSE urlunparse(u.scheme, b.netloc, BaseDir(b.path) \o u.path, u.fragment)

\* ALLOWED_NETLOC = urlparse(ROOT_URL).netloc
ALLOWED_NETLOC == urlparse(ROOT_URL, "").netloc

\* is_internal_link(href); raises where urlparse(href) raises
is_internal_link(href) ==
    IF href = <<>> THEN FALSE
    ELSE LET parsed == urlparse(href, "")
         IN  parsed.netloc = <<>> \/ parsed.netloc = ALLOWED_NETLOC

is_internal_link_raises(href) == href # <<>> /\ urlparse(href, "").bad

\* normalize_url(base, link)
normalize_url(base, link) == urljoin(base, SplitHash(link))

\* ------------------------------------------------------------------------
\* The product-image classifier (is_product_image)
\* ------------------------------------------------------------------------

\* skip_patterns (the deny list)
skip_patterns ==
    {"logo", "banner", "header", "footer", "menu", "icon", "button",
     "social", "facebook", "instagram", "twitter", "youtube",
     "avatar", "profile", "user", "author", "team",
     "background", "bg-", "hero", "slider", "carousel",
     "arrow", "chevron", "close", "search", "cart-icon",
     "payment", "visa", "mastercard", "paypal",
     "placeholder", "loading", "spinner", "no-image",
     "about-us", "contact", "location", "map"}

\* product_indicators (the ASCII entries of the table)
product_indicators ==
    {"product", "item", "goods", "merchandise", "catalog",
     "shop", "store", "buy", "sale", "price",
     "thumbnail", "thumb", "gallery", "image",
     "clothing", "shoes", "bag", "watch", "jewelry",
     "electronics", "phone", "laptop", "headphone",
     "book", "toy", "game", "sport", "fitness",
     "beauty", "cosmetic", "perfume", "makeup",
     "home", "kitchen", "furniture", "decor"}

product_folders == {"products", "items", "catalog", "shop", "store"}
price_terms     == {"price", "sale", "buy", "order"}
image_exts      == {".jpg", ".jpeg", ".png", ".webp"}

\* The patterns of the tables above that occur, as substrings of its
\* characters, in each token the model's image URLs and alt texts are made of.
Substrings(tok) ==
    CASE tok = "products"    -> {"product"}
      [] tok = "p.jpg"       -> {".jpg"}
      [] tok = "logo.png"    -> {"logo", ".png"}
      [] tok = "logo-header" -> {"logo", "header"}
      [] tok = "logo"        -> {"logo"}
      [] tok = "sale"        -> {"sale"}
      [] tok = "shoes"       -> {"shoes"}
      [] tok = "shop"        -> {"shop"}
      [] OTHER               -> {}

\* the patterns of the tables that occur in a lower-cased text
Mentioned(text) == UNION {Substrings(text[i]) : i \in 1..Len(text)}

\* pattern in text, for a lower-cased text
Mentions(text, pattern) == pattern \in Mentioned(text)

\* re.search(r'\d+x\d+', img_url_lower)
HasDimensions(text) == \E i \in 1..Len(text) : text[i] = "300x300"

\* the loop over product_indicators adds 2, 3 and 1 for each indicator that
\* occurs in the URL, the alt text and the page context
product_score(img_url, alt_text, page_context) ==
      2 * Cardinality(product_indicators \cap Mentioned(img_url))
    + 3 * Cardinality(product_indicators \cap Mentioned(alt_text))
    + Cardinality(product_indicators \cap Mentioned(page_context))
    + (IF \E f \in product_folders : Contains(img_url, <<"/", f, "/">>) THEN 5 ELSE 0)
    + (IF price_terms \cap Mentioned(alt_text) # {} THEN 3 ELSE 0)
    + (IF HasDimensions(img_url) THEN 2 ELSE 0)
    + (IF image_exts \cap Mentioned(img_url) # {} THEN 1 ELSE 0)

is_product_image_by_score(img_url, alt_text, page_context) ==
    product_score(img_url, alt_text, page_context) >= 3

\* the deny list is consulted first: a skip pattern in the URL or the alt
\* text returns False whatever the score
is_product_image(img_url, alt_text, page_context) ==
    IF skip_patterns \cap (Mentioned(img_url) \cup Mentioned(alt_text)) # {}
    THEN FALSE
    ELSE product_score(img_url, alt_text, page_context) >= 3

\* ------------------------------------------------------------------------
\* The site: what a fetch can return
\* ------------------------------------------------------------------------

\* An image element: its src attribute and its alt text.
Img(src, alt) == [src |-> src, alt |-> alt]

\* A fetched document: the first texts of its main region (the classifier's
\* page context), the href of each anchor and its image elements in order.
Doc(texts, links, images) == [texts |-> texts, links |-> links, images |-> images]

LeafDoc   == Doc(<<>>, {}, <<>>)
ShopDoc   == Doc(<<"shop">>,
                 {<<"a">>, <<"a", "#", "f">>, <<"#", "f">>, <<"/", "b">>},
                 <<Img(<<"/", "products", "/", "p.jpg">>, <<"shoes">>),
                   Img(<<"/", "logo.png">>, <<"logo-header">>)>>)
LinksDoc  == Doc(<<>>,
                 {<<"a", "/">>,
                  <<"https:", "//", "kako.mn", "/", "b">>,
                  <<"http:", "//", "kako.mn", "/", "a">>,
                  <<"https:", "//", "evil.com", "/">>,
                  <<"//", "evil.com", "/", "a">>,
                  <<"https:", "//", "kako.mn", ".evil", "/">>},
                 <<Img(<<"img", "/", "x.gif">>, <<>>)>>)
ProductDoc == Doc(<<"shop">>, {<<"#", "f">>},
                  <<Img(<<"/", "products", "/", "p.jpg">>, <<"shoes">>)>>)
BadHrefDoc == Doc(<<>>, {<<"a">>, <<"//", "[">>}, <<>>)
BadSrcDoc  == Doc(<<>>, {}, <<Img(<<"/", "logo.png">>, <<"logo-header">>),
                                Img(<<"//", "[">>, <<>>)>>)

\* The documents the site of the system specification serves, and those of
\* the specification of one crawl.
SystemSite == {ProductDoc, BadHrefDoc, BadSrcDoc}
CrawlSite  == {LeafDoc, ShopDoc, LinksDoc, BadHrefDoc, BadSrcDoc}

\* the url values a client posts to /api/scrape (the empty one: no "url" key)
ScrapeUrls == {<<>>, ROOT_URL}

\* ------------------------------------------------------------------------
\* State
\* ------------------------------------------------------------------------

Workers == {"w1", "w2"}
Threads == {"auto"} \cup Workers

\* the number of HTTP requests served in a behaviour
MaxRequests == 2

VARIABLES
    auto_crawl_on_start,  \* AUTO_CRAWL_ON_START
    site,                 \* the documents a fetch can return
    crawl_status,         \* the global crawl_status: status and pages_count (-1: no key)
    crawled_data,         \* the global crawled_data: a list of pages
    crawled_images,       \* the global crawled_images: a list of stored images
    image_files,          \* the names of the files in IMAGES_DIR
    pc,                   \* where each thread is in its handler
    handler,              \* the handler each thread runs, or ran last
    response,             \* the status code of each worker's last response (0: none yet)
    visited, to_visit, results,   \* crawl_and_scrape's locals, per thread
    url, soup, img_i,     \* the page being extracted and the index of its next image
    images,               \* extract_content's images list, per thread
    n,                    \* len(crawled_data) as read for pages_count
    served,               \* the number of requests each worker has taken so far
    query,                \* the function a read request applied last, and its arguments
    answer,               \* what that function returned
    client,               \* whether the Gemini client was created (it is None otherwise)
    conversation_memory   \* the global conversation_memory: a list per conversation id

corpus == <<crawl_status, crawled_data, crawled_images>>
locals == <<visited, to_visit, results, url, soup, img_i, images, n>>
chat   == <<client, conversation_memory>>
vars   == <<auto_crawl_on_start, site, crawl_status, crawled_data, crawled_images,
            image_files, pc, handler, response, visited, to_visit, results, url,
            soup, img_i, images, n, served, query, answer, client,
            conversation_memory>>

\* no function has been applied yet
NoQuery == [op |-> "none"]

\* conversation_memory = {} at line 48, with a client
NoChat ==
    /\ client = TRUE
    /\ conversation_memory = [c \in {} |-> <<>>]

Status(s, count) == [status |-> s, pages_count |-> count]

\* a page dict of results: url and images (ImageRef url, alt); by and req
\* record the thread that created the dict and which of its requests it was
\* serving
Page(u, t, imgs) == [url |-> u, by |-> t, req |-> served[t], images |-> imgs]

\* an entry of crawled_images; by, req and via record the thread that stored
\* it, which of its requests it was serving and the handler of that request
StoredImage(full, page, alt, t) ==
    [url |-> full, page_url |-> page, alt |-> alt,
     by |-> t, req |-> served[t], via |-> handler[t]]

CrawlHandlers   == {"auto", "force_crawl", "api_crawl"}
TriggerHandlers == {"auto", "force_crawl"}

\* the images list extract_content returns
ImageRefs(doc, base) ==
    LET withSrc == SelectSeq(doc.images, LAMBDA im : im.src # <<>>)
    IN  [i \in 1..Len(withSrc) |-> [url |-> urljoin(base, withSrc[i].src), alt |-> withSrc[i].alt]]

InitWith(docs) ==
    /\ auto_crawl_on_start \in BOOLEAN
    /\ site = docs
    /\ crawl_status = Status("not_started", -1)
    /\ crawled_data = <<>>
    /\ crawled_images = <<>>
    /\ image_files = {}
    /\ pc = [t \in Threads |-> IF t = "auto"
                               THEN (IF auto_crawl_on_start THEN "start" ELSE "off")
                               ELSE "idle"]
    /\ handler = [t \in Threads |-> IF t = "auto" THEN "auto" ELSE "none"]
    /\ response = [t \in Threads |-> 0]
    /\ visited = [t \in Threads |-> {}]
    /\ to_visit = [t \in Threads |-> {}]
    /\ results = [t \in Threads |-> <<>>]
    /\ url = [t \in Threads |-> <<>>]
    /\ soup = [t \in Threads |-> LeafDoc]
    /\ img_i = [t \in Threads |-> 0]
    /\ images = [t \in Threads |-> <<>>]
    /\ n = [t \in Threads |-> 0]
    /\ served = [t \in Threads |-> 0]
    /\ query = NoQuery
    /\ answer = <<>>
    /\ NoChat

Init == InitWith(SystemSite)

\* ------------------------------------------------------------------------
\* Steps shared by the handlers
\* ------------------------------------------------------------------------

\* a handler returns: the thread's locals die with its frame
Finish(t, code) ==
    /\ pc' = [pc EXCEPT ![t] = IF t = "auto" THEN "done" ELSE "idle"]
    /\ response' = [response EXCEPT ![t] = code]
    /\ visited' = [visited EXCEPT ![t] = {}]
    /\ to_visit' = [to_visit EXCEPT ![t] = {}]
    /\ results' = [results EXCEPT ![t] = <<>>]
    /\ url' = [url EXCEPT ![t] = <<>>]
    /\ soup' = [soup EXCEPT ![t] = LeafDoc]
    /\ img_i' = [img_i EXCEPT ![t] = 0]
    /\ images' = [images EXCEPT ![t] = <<>>]
    /\ n' = [n EXCEPT ![t] = 0]

\* the requests taken so far
Requests == served["w1"] + served["w2"]

\* a worker takes a request for handler h
Accept(t, h) ==
    /\ t \in Workers
    /\ pc[t] = "idle"
    /\ Requests < MaxRequests
    /\ served' = [served EXCEPT ![t] = @ + 1]
    /\ handler' = [handler EXCEPT ![t] = h]

\* crawl_and_scrape(ROOT_URL) is entered: visited = set(), to_visit = {start_url},
\* results = []
EnterCrawl(t) ==
    /\ visited' = [visited EXCEPT ![t] = {}]
    /\ to_visit' = [to_visit EXCEPT ![t] = {ROOT_URL}]
    /\ results' = [results EXCEPT ![t] = <<>>]
    /\ pc' = [pc EXCEPT ![t] = "loop"]

\* what the request and the decoding of download_and_save_image can come to
DownloadOutcomes == {"ok", "fetch_error", "not_image", "decode_error"}

CaughtDecodeOnly(o) == o = "decode_error"

\* the outcomes download_and_save_image turns into a None result: the return
\* on a content type that is no image, and its two except clauses
Caught(o) == o \in {"fetch_error", "not_image", "decode_error"}

\* filename = f"{url_hash}{file_extension}": the hash is the full URL's, and
\* the extension that of the content type image/jpeg
Filename(full) == [hash |-> full, ext |-> ".jpg"]

ShouldDownloadAlways(full, alt, context) == TRUE

\* if is_product_image(full_img_url, alt, page_text)
ShouldDownload(full, alt, context) == is_product_image(full, alt, context)

\* {"url": full_img_url, "alt": alt}
ImageRef(full, alt) == [url |-> full, alt |-> alt]

\* images.append({"url": full_img_url, "alt": alt}), before the image is
\* classified and whether or not it is stored afterwards
KeepRef(imgs, ref) == Append(imgs, ref)

\* results.append({...}), whatever the anchors of the document
AppendPage(res, page, doc) == Append(res, page)

LoopGuardStopsEarly(tv, v) == tv # {} /\ Cardinality(v) < MAX_CRAWL_PAGES - 1

LoopGuardOffByOne(tv, v) == tv # {} /\ Cardinality(v) <= MAX_CRAWL_PAGES

\* the while condition of crawl_and_scrape
LoopGuard(tv, v) == tv # {} /\ Cardinality(v) < MAX_CRAWL_PAGES

MarkVisitedForgets(v, u) == v

\* visited.add(url)
MarkVisited(v, u) == v \cup {u}

InScopeAlways(full) == TRUE

\* full.startswith(ROOT_URL)
InScope(full) == StartsWith(full, ROOT_URL)

UnvisitedAlways(full, v) == TRUE

\* full not in visited
Unvisited(full, v) == full \notin v

\* the URLs the anchor loop adds to to_visit for the page at base
NewLinks(doc, base, v) ==
    {normalize_url(base, href) : href \in
        {h \in doc.links : /\ is_internal_link(h)
                           /\ InScope(normalize_url(base, h))
                           /\ Unvisited(normalize_url(base, h), v)}}

AlreadyRunningNever(st) == FALSE

AlreadyRunningOrFailed(st) == st.status \in {"running", "failed"}

\* if crawl_status["status"] == "running"
AlreadyRunning(st) == st.status = "running"

AssignCorpusExtends(old, new) == old \o new

\* crawled_data = crawl_and_scrape(ROOT_URL)
AssignCorpus(old, new) == new

ExceptStatusKeeps(h, st) == st

\* except Exception as e: crawl_status = {"status": "error", ...} in
\* auto_crawl_on_startup and force_crawl; the other handlers leave the status
ExceptStatus(h, st) == IF h \in TriggerHandlers THEN Status("error", -1) ELSE st

\* An exception leaves the handler of thread t: the except clause of
\* auto_crawl_on_startup and force_crawl sets the status "error"; api_scrape
\* answers 502; api_crawl has no except clause and the server answers 500.
Raise(t) ==
    /\ crawl_status' = ExceptStatus(handler[t], crawl_status)
    /\ Finish(t, CASE handler[t] = "auto" -> 0
                   [] handler[t] = "api_scrape" -> 502
                   [] OTHER -> 500)
    /\ UNCHANGED <<crawled_data, crawled_images, image_files, handler, served>>

\* ------------------------------------------------------------------------
\* crawl_and_scrape
\* ------------------------------------------------------------------------

\* One iteration up to the fetch, when requests.get fails: the URL is popped,
\* marked visited and skipped.
CrawlFetchFailed(t) ==
    /\ pc[t] = "loop"
    /\ handler[t] \in CrawlHandlers
    /\ LoopGuard(to_visit[t], visited[t])
    /\ \E u \in to_visit[t] :
          /\ to_visit' = [to_visit EXCEPT ![t] = @ \ {u}]
          /\ visited' = [visited EXCEPT ![t] = IF u \in @ THEN @ ELSE MarkVisited(@, u)]
    /\ UNCHANGED <<auto_crawl_on_start, site, query, answer, chat, image_files, corpus, pc, handler, response, results,
                   url, soup, img_i, images, n, served>>

\* One iteration up to the fetch, when it succeeds: the document is parsed and
\* extract_content starts.  A popped URL that is already visited is skipped.
CrawlFetched(t) ==
    /\ pc[t] = "loop"
    /\ handler[t] \in CrawlHandlers
    /\ LoopGuard(to_visit[t], visited[t])
    /\ \E u \in to_visit[t], doc \in site :
          /\ to_visit' = [to_visit EXCEPT ![t] = @ \ {u}]
          /\ IF u \in visited[t]
             THEN UNCHANGED <<visited, url, soup, img_i, images, pc>>
             ELSE /\ visited' = [visited EXCEPT ![t] = MarkVisited(@, u)]
                  /\ images' = [images EXCEPT ![t] = <<>>]
                  /\ url' = [url EXCEPT ![t] = u]
                  /\ soup' = [soup EXCEPT ![t] = doc]
                  /\ img_i' = [img_i EXCEPT ![t] = 1]
                  /\ pc' = [pc EXCEPT ![t] = "extract"]
    /\ UNCHANGED <<auto_crawl_on_start, site, query, answer, chat, image_files, corpus, handler, response,
                   results, n, served>>

\* extract_content, one img element that the classifier accepts and whose
\* download and decoding succeed: the file is kept and the entry appended.
ExtractImageStored(t) ==
    /\ pc[t] = "extract"
    /\ img_i[t] <= Len(soup[t].images)
    /\ LET im   == soup[t].images[img_i[t]]
           full == urljoin(url[t], im.src)
       IN  /\ im.src # <<>>
           /\ ~urljoinRaises(url[t], im.src)
           /\ ShouldDownload(full, im.alt, soup[t].texts)
           /\ "ok" \in DownloadOutcomes
           /\ images' = [images EXCEPT ![t] = KeepRef(@, ImageRef(full, im.alt))]
           /\ image_files' = image_files \cup {Filename(full)}
           /\ crawled_images' = Append(crawled_images,
                                       StoredImage(full, url[t], im.alt, t))
    /\ img_i' = [img_i EXCEPT ![t] = @ + 1]
    /\ UNCHANGED <<auto_crawl_on_start, site, query, answer, chat, crawl_status, crawled_data, pc, handler,
                   response, visited, to_visit, results, url, soup, n, served>>

\* extract_content, one img element that is not downloaded: it has no src, or
\* the classifier rejects it.
ExtractImageSkipped(t) ==
    /\ pc[t] = "extract"
    /\ img_i[t] <= Len(soup[t].images)
    /\ LET im   == soup[t].images[img_i[t]]
           full == urljoin(url[t], im.src)
       IN  \/ /\ im.src = <<>>
              /\ UNCHANGED images
           \/ /\ im.src # <<>>
              /\ ~urljoinRaises(url[t], im.src)
              /\ ~ShouldDownload(full, im.alt, soup[t].texts)
              /\ images' = [images EXCEPT ![t] = KeepRef(@, ImageRef(full, im.alt))]
    /\ img_i' = [img_i EXCEPT ![t] = @ + 1]
    /\ UNCHANGED <<auto_crawl_on_start, site, query, answer, chat, image_files, corpus, pc, handler, response,
                   visited, to_visit, results, url, soup, n, served>>

\* extract_content, one accepted img element whose download fails before a
\* file is written (the request raises, the status is not 2xx, or the content
\* type is not an image): download_and_save_image returns None.
ExtractImageFetchFailed(t) ==
    /\ pc[t] = "extract"
    /\ img_i[t] <= Len(soup[t].images)
    /\ LET im   == soup[t].images[img_i[t]]
           full == urljoin(url[t], im.src)
       IN  /\ im.src # <<>>
           /\ ~urljoinRaises(url[t], im.src)
           /\ ShouldDownload(full, im.alt, soup[t].texts)
           /\ \E o \in DownloadOutcomes \cap {"fetch_error", "not_image"} : Caught(o)
           /\ images' = [images EXCEPT ![t] = KeepRef(@, ImageRef(full, im.alt))]
    /\ img_i' = [img_i EXCEPT ![t] = @ + 1]
    /\ UNCHANGED <<auto_crawl_on_start, site, query, answer, chat, image_files, corpus, pc, handler, response,
                   visited, to_visit, results, url, soup, n, served>>

\* extract_content, one accepted img element whose file is written and cannot
\* be decoded: the file of that name is removed and None returned.
ExtractImageDecodeFailed(t) ==
    /\ pc[t] = "extract"
    /\ img_i[t] <= Len(soup[t].images)
    /\ LET im   == soup[t].images[img_i[t]]
           full == urljoin(url[t], im.src)
       IN  /\ im.src # <<>>
           /\ ~urljoinRaises(url[t], im.src)
           /\ ShouldDownload(full, im.alt, soup[t].texts)
           /\ "decode_error" \in DownloadOutcomes /\ Caught("decode_error")
           /\ images' = [images EXCEPT ![t] = KeepRef(@, ImageRef(full, im.alt))]
           /\ image_files' = (image_files \cup {Filename(full)}) \ {Filename(full)}
    /\ img_i' = [img_i EXCEPT ![t] = @ + 1]
    /\ UNCHANGED <<auto_crawl_on_start, site, query, answer, chat, corpus, pc, handler, response,
                   visited, to_visit, results, url, soup, n, served>>

\* extract_content, one img element that ends the handler: urljoin cannot
\* parse its src, or its download fails with an exception that
\* download_and_save_image does not catch.
ExtractImageRaises(t) ==
    /\ pc[t] = "extract"
    /\ img_i[t] <= Len(soup[t].images)
    /\ LET im == soup[t].images[img_i[t]]
       IN  /\ im.src # <<>>
           /\ \/ urljoinRaises(url[t], im.src)
              \/ /\ ShouldDownload(urljoin(url[t], im.src), im.alt, soup[t].texts)
                 /\ \E o \in DownloadOutcomes : o # "ok" /\ ~Caught(o)
    /\ Raise(t)
    /\ UNCHANGED <<auto_crawl_on_start, site, query, answer, chat>>

\* The page is appended to results and its anchors are followed.
RecordPage(t) ==
    /\ pc[t] = "extract"
    /\ handler[t] \in CrawlHandlers
    /\ img_i[t] > Len(soup[t].images)
    /\ \A h \in soup[t].links : ~is_internal_link_raises(h)
    /\ results' = [results EXCEPT ![t] =
                      AppendPage(@, Page(url[t], t, images[t]), soup[t])]
    /\ to_visit' = [to_visit EXCEPT ![t] = @ \cup NewLinks(soup[t], url[t], visited[t])]
    /\ pc' = [pc EXCEPT ![t] = "loop"]
    /\ UNCHANGED <<auto_crawl_on_start, site, query, answer, chat, image_files, corpus, handler, response, visited,
                   url, soup, img_i, images, n, served>>

\* An anchor whose href urlparse cannot parse: the ValueError of
\* is_internal_link leaves crawl_and_scrape, and results with it.
FollowLinksRaises(t) ==
    /\ pc[t] = "extract"
    /\ handler[t] \in CrawlHandlers
    /\ img_i[t] > Len(soup[t].images)
    /\ \E h \in soup[t].links : is_internal_link_raises(h)
    /\ Raise(t)
    /\ UNCHANGED <<auto_crawl_on_start, site, query, answer, chat>>

\* ------------------------------------------------------------------------
\* The triggers: auto_crawl_on_startup, force_crawl, api_crawl
\* ------------------------------------------------------------------------

\* auto_crawl_on_startup, on its thread: the status is set "running" and the
\* crawl entered.
AutoCrawlStart ==
    /\ pc["auto"] = "start"
    /\ crawl_status' = Status("running", -1)
    /\ EnterCrawl("auto")
    /\ UNCHANGED <<auto_crawl_on_start, site, query, answer, chat, image_files, crawled_data, crawled_images, handler,
                   response, url, soup, img_i, images, n, served>>

\* force_crawl: the check of the status; 409 when a crawl is running
ForceCrawlCheck(t) ==
    /\ Accept(t, "force_crawl")
    /\ IF AlreadyRunning(crawl_status)
       THEN /\ response' = [response EXCEPT ![t] = 409]
            /\ UNCHANGED pc
       ELSE /\ response' = [response EXCEPT ![t] = 0]
            /\ pc' = [pc EXCEPT ![t] = "set_running"]
    /\ UNCHANGED <<auto_crawl_on_start, site, query, answer, chat, image_files, corpus, locals>>

\* force_crawl: the status is set "running" and the crawl entered
ForceCrawlSet(t) ==
    /\ pc[t] = "set_running"
    /\ crawl_status' = Status("running", -1)
    /\ EnterCrawl(t)
    /\ UNCHANGED <<auto_crawl_on_start, site, query, answer, chat, image_files, crawled_data, crawled_images, handler,
                   response, url, soup, img_i, images, n, served>>

\* api_crawl: the crawl is entered, whatever the status
ApiCrawl(t) ==
    /\ Accept(t, "api_crawl")
    /\ response' = [response EXCEPT ![t] = 0]
    /\ EnterCrawl(t)
    /\ UNCHANGED <<auto_crawl_on_start, site, query, answer, chat, image_files, corpus, url, soup, img_i, images, n>>

\* crawl_and_scrape returns to auto_crawl_on_startup or force_crawl, which
\* assigns crawled_data
CrawlReturn(t) ==
    /\ pc[t] = "loop"
    /\ handler[t] \in TriggerHandlers
    /\ ~LoopGuard(to_visit[t], visited[t])
    /\ crawled_data' = AssignCorpus(crawled_data, results[t])
    /\ pc' = [pc EXCEPT ![t] = "check"]
    /\ UNCHANGED <<auto_crawl_on_start, site, query, answer, chat, image_files, crawl_status, crawled_images, handler,
                   response, locals, served>>

\* crawl_and_scrape returns to api_crawl, which answers with the pages
ApiCrawlReturn(t) ==
    /\ pc[t] = "loop"
    /\ handler[t] = "api_crawl"
    /\ ~LoopGuard(to_visit[t], visited[t])
    /\ Finish(t, 200)
    /\ UNCHANGED <<auto_crawl_on_start, site, query, answer, chat, image_files, corpus, handler, served>>

HasPagesNotNone(data) == TRUE

\* the truth value of the list crawled_data
HasPages(data) == data # <<>>

\* if crawled_data:
CheckCorpus(t) ==
    /\ pc[t] = "check"
    /\ pc' = [pc EXCEPT ![t] = IF HasPages(crawled_data) THEN "count" ELSE "failed"]
    /\ UNCHANGED <<auto_crawl_on_start, site, query, answer, chat, image_files, corpus, handler, response, locals,
                   served>>

\* "pages_count": len(crawled_data)
CountPages(t) ==
    /\ pc[t] = "count"
    /\ n' = [n EXCEPT ![t] = Len(crawled_data)]
    /\ pc' = [pc EXCEPT ![t] = "completed"]
    /\ UNCHANGED <<auto_crawl_on_start, site, query, answer, chat, image_files, corpus, handler, response, visited,
                   to_visit, results, url, soup, img_i, images, served>>

\* crawl_status = {"status": "completed", ...}
SetCompleted(t) ==
    /\ pc[t] = "completed"
    /\ crawl_status' = Status("completed", n[t])
    /\ Finish(t, IF t = "auto" THEN 0 ELSE 200)
    /\ UNCHANGED <<auto_crawl_on_start, site, query, answer, chat, image_files, crawled_data, crawled_images, handler,
                   served>>

\* crawl_status = {"status": "failed", ...}
SetFailed(t) ==
    /\ pc[t] = "failed"
    /\ crawl_status' = Status("failed", -1)
    /\ Finish(t, IF t = "auto" THEN 0 ELSE 500)
    /\ UNCHANGED <<auto_crawl_on_start, site, query, answer, chat, image_files, crawled_data, crawled_images, handler,
                   served>>

\* ------------------------------------------------------------------------
\* The other handlers that touch the corpus
\* ------------------------------------------------------------------------

\* api_scrape up to the fetch of scrape_single: 400 without a url, 502 when
\* the fetch fails
ApiScrapeRejected(t) ==
    /\ Accept(t, "api_scrape")
    /\ \E u \in ScrapeUrls :
          response' = [response EXCEPT ![t] = IF u = <<>> THEN 400 ELSE 502]
    /\ UNCHANGED <<auto_crawl_on_start, site, query, answer, chat, image_files, corpus, pc, locals>>

\* api_scrape, the fetch of scrape_single succeeds: extract_content starts
ApiScrapeFetched(t) ==
    /\ Accept(t, "api_scrape")
    /\ \E u \in ScrapeUrls \ {<<>>}, doc \in site :
          /\ url' = [url EXCEPT ![t] = u]
          /\ soup' = [soup EXCEPT ![t] = doc]
    /\ img_i' = [img_i EXCEPT ![t] = 1]
    /\ images' = [images EXCEPT ![t] = <<>>]
    /\ response' = [response EXCEPT ![t] = 0]
    /\ pc' = [pc EXCEPT ![t] = "extract"]
    /\ UNCHANGED <<auto_crawl_on_start, site, query, answer, chat, image_files, corpus, visited, to_visit, results, n>>

\* scrape_single returns the page and api_scrape answers with it
ApiScrapeReturn(t) ==
    /\ pc[t] = "extract"
    /\ handler[t] = "api_scrape"
    /\ img_i[t] > Len(soup[t].images)
    /\ Finish(t, 200)
    /\ UNCHANGED <<auto_crawl_on_start, site, query, answer, chat, image_files, corpus, handler, served>>

\* clear_crawled_images
ClearImages(t) ==
    /\ Accept(t, "clear_images")
    /\ image_files' = {}
    /\ crawled_images' = <<>>
    /\ response' = [response EXCEPT ![t] = 200]
    /\ UNCHANGED <<auto_crawl_on_start, site, query, answer, chat, crawl_status, crawled_data, pc, locals>>

\* api_search: 400 without a query, 409 while a crawl runs, 404 on an empty
\* corpus, else the results
ApiSearch(t) ==
    /\ Accept(t, "api_search")
    /\ \E hasQuery \in BOOLEAN :
          response' = [response EXCEPT ![t] =
                          IF ~hasQuery THEN 400
                          ELSE IF crawl_status.status = "running" THEN 409
                          ELSE IF crawled_data = <<>> THEN 404
                          ELSE 200]
    /\ UNCHANGED <<auto_crawl_on_start, site, query, answer, chat, image_files, corpus, pc, locals>>

\* get_crawl_status, get_crawled_data, health_check, get_crawled_images: the
\* corpus is read and reported
ReadCorpus(t) ==
    /\ Accept(t, "read")
    /\ response' = [response EXCEPT ![t] = 200]
    /\ UNCHANGED <<auto_crawl_on_start, site, query, answer, chat, image_files, corpus, pc, locals>>

Next ==
    \/ AutoCrawlStart
    \/ \E t \in Threads :
          \/ CrawlFetchFailed(t)
          \/ CrawlFetched(t)
          \/ ExtractImageStored(t)
          \/ ExtractImageSkipped(t)
          \/ ExtractImageFetchFailed(t)
          \/ ExtractImageDecodeFailed(t)
          \/ ExtractImageRaises(t)
          \/ RecordPage(t)
          \/ FollowLinksRaises(t)
          \/ CrawlReturn(t)
          \/ CheckCorpus(t)
          \/ CountPages(t)
          \/ SetCompleted(t)
          \/ SetFailed(t)
    \/ \E t \in Workers :
          \/ ForceCrawlCheck(t)
          \/ ForceCrawlSet(t)
          \/ ApiCrawl(t)
          \/ ApiCrawlReturn(t)
          \/ ApiScrapeRejected(t)
          \/ ApiScrapeFetched(t)
          \/ ApiScrapeReturn(t)
          \/ ClearImages(t)
          \/ ApiSearch(t)
          \/ ReadCorpus(t)

Spec == Init /\ [][Next]_vars

\* One crawl pass, of the startup thread, over the larger site.
InitCrawl == InitWith(CrawlSite)

NextCrawl ==
    \/ AutoCrawlStart
    \/ CrawlFetchFailed("auto")
    \/ CrawlFetched("auto")
    \/ ExtractImageStored("auto")
    \/ ExtractImageSkipped("auto")
    \/ ExtractImageFetchFailed("auto")
    \/ ExtractImageDecodeFailed("auto")
    \/ ExtractImageRaises("auto")
    \/ RecordPage("auto")
    \/ FollowLinksRaises("auto")
    \/ CrawlReturn("auto")
    \/ CheckCorpus("auto")
    \/ CountPages("auto")
    \/ SetCompleted("auto")
    \/ SetFailed("auto")

CrawlSpec == InitCrawl /\ [][NextCrawl]_vars

\* ------------------------------------------------------------------------
\* Properties
\* ------------------------------------------------------------------------

\* thread t is executing crawl_and_scrape
InPass(t) == handler[t] \in CrawlHandlers /\ pc[t] \in {"loop", "extract"}

\* the URLs of a list of pages
PageUrls(pages) == {pages[i].url : i \in 1..Len(pages)}

\* u has the scheme and the network location of ROOT_URL
SameOrigin(u) ==
    /\ urlparse(u, "").scheme = urlparse(ROOT_URL, "").scheme
    /\ urlparse(u, "").netloc = ALLOWED_NETLOC

\* C1: at most one execution of crawl_and_scrape is in progress at any time.
C1_AtMostOnePass == Cardinality({t \in Threads : InPass(t)}) <= 1

\* C2: a force-crawl request that finds the status "running" is answered 409,
\* starts no pass (the worker is idle again at once) and leaves crawled_data,
\* crawled_images and crawl_status as they were.
C2_RunningForceCrawlRejected ==
    [][\A t \in Workers :
          (ForceCrawlCheck(t) /\ crawl_status.status = "running")
              => /\ response'[t] = 409
                 /\ pc'[t] = "idle"
                 /\ UNCHANGED <<corpus, locals>>]_vars

C2_Witness ==
    \E t \in Workers, o \in Threads :
        /\ handler[t] = "force_crawl" /\ response[t] = 409 /\ pc[t] = "idle"
        /\ o # t /\ InPass(o) /\ crawl_status.status = "running"

\* the steps of thread t that write the corpus as part of a triggered pass
PassWrite(t) ==
    /\ handler[t] \in TriggerHandlers
    /\ \/ t = "auto" /\ AutoCrawlStart
       \/ ForceCrawlSet(t)
       \/ ExtractImageStored(t)
       \/ ExtractImageRaises(t)
       \/ FollowLinksRaises(t)
       \/ CrawlReturn(t)
       \/ SetCompleted(t)
       \/ SetFailed(t)

\* C3: every step that changes crawl_status, crawled_data or crawled_images is
\* a step of a pass started by auto_crawl_on_startup or by force_crawl's
\* guarded trigger; no other handler writes the corpus.
C3_SingleWriter ==
    [][corpus' # corpus => \E t \in Threads : PassWrite(t)]_vars

\* C4: the status a pass ends with is decided by what its crawl returned:
\* "completed" only for a non-empty list, "failed" only for an empty one.
C4_OutcomeDecidesStatus ==
    [][\A t \in Threads :
          /\ SetCompleted(t) => results[t] # <<>>
          /\ SetFailed(t) => results[t] = <<>>]_vars

\* C5: the number of visited URLs of a crawl never exceeds MAX_CRAWL_PAGES.
C5_VisitedWithinBudget ==
    \A t \in Threads : Cardinality(visited[t]) <= MAX_CRAWL_PAGES

C5_Witness ==
    \E t \in Threads :
        /\ pc[t] = "loop"
        /\ Cardinality(visited[t]) = MAX_CRAWL_PAGES
        /\ to_visit[t] # {}

\* C6: no two pages of the list a crawl builds, or of crawled_data, have the
\* same url.
C6_UniquePageUrls ==
    /\ \A t \in Threads : Cardinality(PageUrls(results[t])) = Len(results[t])
    /\ Cardinality(PageUrls(crawled_data)) = Len(crawled_data)

\* a second page has been fetched whose anchors lead back to a recorded page
C6_Witness ==
    \E t \in Threads :
        /\ pc[t] = "extract"
        /\ Len(results[t]) >= 1
        /\ \E h \in soup[t].links :
              /\ is_internal_link(h)
              /\ normalize_url(url[t], h) \in PageUrls(results[t])

\* C7: every URL of the frontier, every visited (fetched) URL and every page
\* url of a crawl starts with ROOT_URL, has no fragment and has the scheme and
\* the network location of ROOT_URL.
C7_ScopeFence ==
    \A t \in Threads :
        handler[t] \in CrawlHandlers =>
            \A u \in to_visit[t] \cup visited[t] \cup PageUrls(results[t]) :
                /\ StartsWith(u, ROOT_URL)
                /\ urlparse(u, "").fragment = <<>>
                /\ SameOrigin(u)

\* a page with external, other-scheme and look-alike links has been followed
C7_Witness ==
    \E t \in Threads :
        /\ pc[t] = "loop"
        /\ soup[t] = LinksDoc
        /\ to_visit[t] # {}
        /\ \E h \in soup[t].links : ~is_internal_link(h)
        /\ \E h \in soup[t].links :
              is_internal_link(h) /\ ~InScope(normalize_url(url[t], h))

\* C8: a crawl in progress ends only when its loop condition is false: a
\* failure while one URL is processed does not end it.
C8_FailureSkipsOnlyThatUrl ==
    [][\A t \in Threads :
          (InPass(t) /\ ~InPass(t)') => ~LoopGuard(to_visit[t], visited[t])]_vars

C10_NoImageHistory ==
    [][\A t \in Threads :
          SetCompleted(t) =>
              \A i \in 1..Len(crawled_images') :
                  (crawled_images'[i].by = t /\ crawled_images'[i].via \in TriggerHandlers)
                      => crawled_images'[i].req = served[t]]_vars

\* thread t is in no handler
Quiet(t) == pc[t] \in {"off", "done", "idle"}

\* C11: a pass that ends in "failed" or "error" leaves crawled_data as it was:
\* neither the assignment of a crawl that returned no page (the pass its
\* caller then reports "failed") nor an exception that leaves a triggered
\* pass changes crawled_data.  Read for a pass that runs alone.
C11_FailedPassKeepsPages ==
    [][\A t \in Threads :
          (\A o \in Threads \ {t} : Quiet(o)) =>
              /\ (CrawlReturn(t) /\ results[t] = <<>>) => crawled_data' = crawled_data
              /\ (handler[t] \in TriggerHandlers
                    /\ (ExtractImageRaises(t) \/ FollowLinksRaises(t)))
                   => crawled_data' = crawled_data]_vars

\* e was created for an image element of the site that is_product_image
\* accepts, with that element's absolute URL, alt text and page context
AcceptedImageOf(e) ==
    \E doc \in site : \E k \in 1..Len(doc.images) :
        /\ doc.images[k].src # <<>>
        /\ e.url = urljoin(e.page_url, doc.images[k].src)
        /\ e.alt = doc.images[k].alt
        /\ is_product_image(e.url, e.alt, doc.texts)

\* C12: every entry of crawled_images was created for an image that
\* is_product_image accepted, and every file of the image directory is the
\* download of such an image (a rejected image is neither downloaded nor
\* stored); an entry is appended only by a download that succeeded, whose
\* file is then in the directory.
C12_OnlyAcceptedImagesStored ==
    /\ [](\A i \in 1..Len(crawled_images) : AcceptedImageOf(crawled_images[i]))
    /\ [](\A f \in image_files :
             \E doc \in site : \E k \in 1..Len(doc.images) :
                 is_product_image(f.hash, doc.images[k].alt, doc.texts))
    /\ [][crawled_images' # crawled_images /\ crawled_images' # <<>> =>
             /\ \E t \in Threads : ExtractImageStored(t)
             /\ Filename(crawled_images'[Len(crawled_images')].url) \in image_files']_vars

\* a page with an accepted and a rejected image has been extracted: the first
\* is stored, the second is only among the page's images
C12_Witness ==
    \E t \in Threads :
        /\ pc[t] = "extract"
        /\ img_i[t] > Len(soup[t].images)
        /\ Len(images[t]) = 2
        /\ is_product_image(images[t][1].url, images[t][1].alt, soup[t].texts)
        /\ ~is_product_image(images[t][2].url, images[t][2].alt, soup[t].texts)
        /\ \E i \in 1..Len(crawled_images) : crawled_images[i].url = images[t][1].url
        /\ \A i \in 1..Len(crawled_images) : crawled_images[i].url # images[t][2].url

\* thread t takes a step: each step of a thread in a handler changes its
\* position, its image index or its frontier
Step(t) == <<pc[t], img_i[t], to_visit[t], visited[t]>>' # <<pc[t], img_i[t], to_visit[t], visited[t]>>

\* The scheduler lets thread t run: a thread that stays in a handler takes
\* steps again and again.  This is weak fairness of the steps of t, a thread
\* in a handler having a next step in every state.
Scheduled(t) == []<>Quiet(t) \/ []<><<Step(t)>>_vars

\* The crawl of the startup thread under a scheduler that lets it run.
FairCrawlSpec ==
    InitCrawl /\ [][NextCrawl]_vars /\ WF_vars(AutoCrawlStart) /\ Scheduled("auto")

\* C13: every execution of crawl_and_scrape ends, and the step on which it
\* returns to its caller finds the frontier empty or the number of visited
\* URLs at MAX_CRAWL_PAGES.
C13_CrawlTerminates ==
    /\ InPass("auto") ~> ~InPass("auto")
    /\ [][\A t \in Threads :
             (CrawlReturn(t) \/ ApiCrawlReturn(t)) =>
                 \/ to_visit[t] = {}
                 \/ Cardinality(visited[t]) = MAX_CRAWL_PAGES]_vars

\* a crawl has returned on the budget with the frontier not empty
C13_Witness ==
    /\ pc["auto"] = "check"
    /\ Cardinality(visited["auto"]) = MAX_CRAWL_PAGES
    /\ to_visit["auto"] # {}

\* The application under a scheduler that lets every thread run.
FairSpec ==
    /\ Init /\ [][Next]_vars
    /\ WF_vars(AutoCrawlStart)
    /\ Scheduled("auto") /\ Scheduled("w1") /\ Scheduled("w2")

Terminal == {"completed", "failed", "error"}

\* thread t is in a pass that has set the status "running"
InTrigger(t) ==
    /\ handler[t] \in TriggerHandlers
    /\ pc[t] \in {"loop", "extract", "check", "count", "completed", "failed"}

\* C14: a pass that has set the status "running" ends, and the step that ends
\* it sets "completed", "failed" or "error"; the status does not stay
\* "running" for ever, and a step that changes it from "running" sets one of
\* these three.
C14_RunningResolves ==
    /\ InTrigger("auto") ~> ~InTrigger("auto")
    /\ InTrigger("w1") ~> ~InTrigger("w1")
    /\ InTrigger("w2") ~> ~InTrigger("w2")
    /\ (crawl_status.status = "running") ~> (crawl_status.status \in Terminal)
    /\ [][/\ \A t \in Threads :
                (InTrigger(t) /\ ~InTrigger(t)') => crawl_status'.status \in Terminal
          /\ crawl_status.status = "running"
                => crawl_status'.status \in {"running"} \cup Terminal]_vars

\* a force-crawl pass set "running" and has ended with "error" after the
\* startup pass completed
C14_Witness ==
    \E t \in Workers :
        /\ handler[t] = "force_crawl" /\ pc[t] = "idle" /\ response[t] = 500
        /\ crawl_status.status = "error"
        /\ pc["auto"] = "done"
        /\ crawled_data # <<>>

\* C15: the processing of every URL whose fetch succeeded ends with exactly
\* one page for that URL appended to the crawl's results, whether or not the
\* document has anchors.
C15_FetchedUrlRecorded ==
    [][\A t \in Threads :
          (handler[t] \in CrawlHandlers /\ pc[t] = "extract" /\ pc'[t] # "extract")
              => /\ Len(results'[t]) = Len(results[t]) + 1
                 /\ results'[t][Len(results'[t])].url = url[t]
                 /\ PageUrls(results'[t]) = PageUrls(results[t]) \cup {url[t]}]_vars

\* a step of crawl_and_scrape, or of the extract_content it calls, by thread t
CrawlStep(t) ==
    /\ InPass(t)
    /\ \/ CrawlFetchFailed(t)
       \/ CrawlFetched(t)
       \/ ExtractImageStored(t)
       \/ ExtractImageSkipped(t)
       \/ ExtractImageFetchFailed(t)
       \/ ExtractImageDecodeFailed(t)
       \/ RecordPage(t)

\* C16: no step of crawl_and_scrape changes crawl_status or crawled_data, and
\* every execution of it is bracketed by its caller: the step that enters it
\* leaves the status "running", and the step that leaves it either sets a
\* terminal status or returns to a caller that is about to set one.
C16_CrawlBracketedByCaller ==
    [][\A t \in Threads :
          /\ CrawlStep(t) => UNCHANGED <<crawl_status, crawled_data>>
          /\ (~InPass(t) /\ InPass(t)') => crawl_status'.status = "running"
          /\ (InPass(t) /\ ~InPass(t)')
                => \/ crawl_status'.status \in Terminal
                   \/ pc'[t] = "check"]_vars

\* C17: no request-serving worker executes a crawl: crawl_and_scrape runs on
\* the background thread only, so no request waits for a crawl to finish.
C17_CrawlOffRequestPath == \A t \in Workers : ~InPass(t)

\* C18: no step enters "not_started" or "disabled" from another status, and
\* a trigger in a status other than "running" sets "running": the startup
\* trigger does, and a force-crawl request that finds a status other than
\* "running" goes on to the assignment that sets it.
C18_InitialOnlyStates ==
    [][/\ crawl_status'.status \in {"not_started", "disabled"}
             => crawl_status'.status = crawl_status.status
       /\ AutoCrawlStart => crawl_status'.status = "running"
       /\ \A t \in Workers :
             /\ (ForceCrawlCheck(t) /\ crawl_status.status # "running")
                   => pc'[t] = "set_running"
             /\ ForceCrawlSet(t) => crawl_status'.status = "running"]_vars

\* a force-crawl issued after the startup pass ended in "failed" or "error"
\* has set the status "running"
C18_Witness ==
    \E t \in Workers :
        /\ handler[t] = "force_crawl" /\ pc[t] = "loop" /\ visited[t] = {}
        /\ crawl_status.status = "running"
        /\ pc["auto"] = "done"
        /\ crawled_data = <<>>
        /\ \A o \in Workers \ {t} : served[o] = 0

\* C19: a download whose decoding fails leaves the image directory and
\* crawled_images as they were before the attempt.
C19_FailedDecodeLeavesNoTrace ==
    [][\A t \in Threads :
          ExtractImageDecodeFailed(t) =>
              /\ image_files' = image_files
              /\ crawled_images' = crawled_images]_vars

\* thread t is about to process an img element that the classifier accepts
AtAcceptedImage(t) ==
    /\ pc[t] = "extract"
    /\ img_i[t] <= Len(soup[t].images)
    /\ soup[t].images[img_i[t]].src # <<>>
    /\ ~urljoinRaises(url[t], soup[t].images[img_i[t]].src)
    /\ is_product_image(urljoin(url[t], soup[t].images[img_i[t]].src),
                        soup[t].images[img_i[t]].alt, soup[t].texts)

\* C20: when the download of an accepted image does not end in a stored
\* entry, only that image is skipped: the extraction goes on with the next
\* element, the image's reference is among the page's images, nothing
\* collected so far is lost, and the page is then recorded with the
\* references of all its images.
C20_ImageFailureIsLocal ==
    [][\A t \in Threads :
          /\ (AtAcceptedImage(t) /\ Step(t) /\ crawled_images' = crawled_images)
                => /\ pc'[t] = "extract"
                   /\ img_i'[t] = img_i[t] + 1
                   /\ images'[t] = Append(images[t],
                          ImageRef(urljoin(url[t], soup[t].images[img_i[t]].src),
                                   soup[t].images[img_i[t]].alt))
                   /\ UNCHANGED <<crawl_status, crawled_data, results, to_visit, visited>>
          /\ RecordPage(t)
                => results'[t][Len(results'[t])].images = ImageRefs(soup[t], url[t])]_vars

\* a page whose accepted image was not stored has been recorded with that
\* image's reference, and the crawl has gone on to record another page
C20_Witness ==
    \E t \in Threads :
        /\ pc[t] = "loop"
        /\ Len(results[t]) >= 2
        /\ crawled_images = <<>>
        /\ \E r \in Range(results[t][1].images) :
              is_product_image(r.url, r.alt, <<>>)

\* the pass of thread t has fetched ROOT_URL, no anchor of the document it got
\* is an internal link, and ROOT_URL is all it has visited
RootWithoutInternalLinks(t) ==
    /\ InTrigger(t)
    /\ url[t] = ROOT_URL
    /\ visited[t] = {ROOT_URL}
    /\ \A h \in soup[t].links : ~is_internal_link_raises(h) /\ ~is_internal_link(h)

\* C21: a pass whose root page was fetched and has no internal link returns
\* exactly one page, and the step that ends the pass sets the status
\* "completed" with pages_count 1.
C21_LeafRootCompletes ==
    [][\A t \in Threads :
          (RootWithoutInternalLinks(t) /\ ~InTrigger(t)')
              => /\ Len(results[t]) = 1
                 /\ Len(crawled_data') = 1
                 /\ crawl_status' = Status("completed", 1)]_vars

\* the pass of thread t has tried ROOT_URL, and its fetch failed
RootUnreachable(t) ==
    /\ InTrigger(t)
    /\ url[t] = <<>>
    /\ visited[t] = {ROOT_URL}

\* C22: when the fetch of the root URL fails the crawl goes on to return an
\* empty list of pages, and the step that ends the pass is the caller's
\* assignment of the status "failed": no exception leaves the crawl and the
\* status is not "error".
C22_UnreachableRootFails ==
    [][\A t \in Threads :
          /\ (InTrigger(t) /\ CrawlFetchFailed(t) /\ visited[t] = {})
                => RootUnreachable(t)' /\ pc'[t] = "loop" /\ to_visit'[t] = {}
          /\ (RootUnreachable(t) /\ CrawlReturn(t)) => crawled_data' = <<>>
          /\ (RootUnreachable(t) /\ ~InTrigger(t)')
                => /\ SetFailed(t)
                   /\ results[t] = <<>>
                   /\ crawled_data' = <<>>
                   /\ crawl_status' = Status("failed", -1)]_vars

\* the startup pass could not fetch the root URL and has ended with "failed"
C22_Witness ==
    /\ pc["auto"] = "done"
    /\ crawl_status = Status("failed", -1)
    /\ crawled_data = <<>>
    /\ crawled_images = <<>>

\* ------------------------------------------------------------------------
\* Image features and similarity
\* ------------------------------------------------------------------------

RECURSIVE GCD(_, _)
GCD(a, b) == IF b = 0 THEN a ELSE GCD(b, a % b)

\* The numbers of the histograms and of the similarity are fractions in
\* lowest terms with a positive denominator.
Rat(num, den) ==
    LET g == GCD(IF num < 0 THEN -num ELSE num, den)
    IN  [num |-> num \div g, den |-> den \div g]

Zero == Rat(0, 1)
One  == Rat(1, 1)

RatAdd(x, y) == Rat(x.num * y.den + y.num * x.den, x.den * y.den)
RatSub(x, y) == Rat(x.num * y.den - y.num * x.den, x.den * y.den)
RatMul(x, y) == Rat(x.num * y.num, x.den * y.den)
RatDiv(x, y) == Rat(x.num * y.den, x.den * y.num)
RatGeq(x, y) == x.num * y.den >= y.num * x.den

\* the values a colour channel of a pixel takes: 0 .. Levels - 1
Levels == 2

Black == <<0, 0, 0>>
White == <<1, 1, 1>>
Red   == <<1, 0, 0>>

\* The decoded RGB pixels of the images that are served and uploaded, each
\* within the thumbnail size, so that thumbnail() leaves it as it is.
Pictures ==
    {<<Black>>, <<White>>, <<Red, Black>>, <<Black, Red>>}

\* thumb.histogram()[c*256:(c+1)*256], each count divided by total_pixels
NormalizedHistogram(thumb, channel) ==
    [v \in 1..Levels |->
        Rat(Cardinality({i \in 1..Len(thumb) : thumb[i][channel] = v - 1}), Len(thumb))]

\* the histograms download_and_save_image stores with an image
StoredFeatures(thumb) ==
    [hist_r |-> NormalizedHistogram(thumb, 1),
     hist_g |-> NormalizedHistogram(thumb, 2),
     hist_b |-> NormalizedHistogram(thumb, 3)]

\* the histograms process_user_image_features computes for an upload
process_user_image_features(thumb) ==
    [hist_r |-> [v \in 1..Levels |->
                    Rat(Cardinality({i \in 1..Len(thumb) : thumb[i][1] = v - 1}), Len(thumb))],
     hist_g |-> [v \in 1..Levels |->
                    Rat(Cardinality({i \in 1..Len(thumb) : thumb[i][2] = v - 1}), Len(thumb))],
     hist_b |-> [v \in 1..Levels |->
                    Rat(Cardinality({i \in 1..Len(thumb) : thumb[i][3] = v - 1}), Len(thumb))]]

BinCountedAlways(a, b) == TRUE

\* if h1[i] + h2[i] > 0
BinCounted(a, b) == RatAdd(a, b).num > 0

\* chi_squared_distance divides by zero
ChiSquaredRaises(h1, h2) ==
    \E i \in 1..Len(h1) : BinCounted(h1[i], h2[i]) /\ RatAdd(h1[i], h2[i]).num = 0

RECURSIVE ChiSquaredUpTo(_, _, _)
ChiSquaredUpTo(h1, h2, k) ==
    IF k = 0 THEN Zero
    ELSE LET rest == ChiSquaredUpTo(h1, h2, k - 1)
             diff == RatSub(h1[k], h2[k])
         IN  IF BinCounted(h1[k], h2[k])
             THEN RatAdd(rest, RatDiv(RatMul(diff, diff), RatAdd(h1[k], h2[k])))
             ELSE rest

\* chi_squared_distance(h1, h2), where it does not raise
chi_squared_distance(h1, h2) == ChiSquaredUpTo(h1, h2, Len(h1))

\* calculate_image_similarity: 1 / (1 + avg_distance), and 0.0 from the
\* except clause
calculate_image_similarity(features1, features2) ==
    IF \/ ChiSquaredRaises(features1.hist_r, features2.hist_r)
       \/ ChiSquaredRaises(features1.hist_g, features2.hist_g)
       \/ ChiSquaredRaises(features1.hist_b, features2.hist_b)
    THEN Zero
    ELSE LET dist_r == chi_squared_distance(features1.hist_r, features2.hist_r)
             dist_g == chi_squared_distance(features1.hist_g, features2.hist_g)
             dist_b == chi_squared_distance(features1.hist_b, features2.hist_b)
             avg_distance == RatDiv(RatAdd(RatAdd(dist_r, dist_g), dist_b), Rat(3, 1))
         IN  RatDiv(One, RatAdd(One, avg_distance))

\* the entry find_similar_crawled_images appends for a stored image
SimilarImage(img_data, similarity) ==
    [url |-> img_data.url, similarity |-> similarity, filename |-> img_data.filename,
     page_url |-> img_data.page_url, alt |-> img_data.alt,
     page_title |-> img_data.page_title]

\* the loop of find_similar_crawled_images over the first k stored images
RECURSIVE SimilarUpTo(_, _, _, _)
SimilarUpTo(user_image_features, stored, similarity_threshold, k) ==
    IF k = 0 THEN <<>>
    ELSE LET rest == SimilarUpTo(user_image_features, stored, similarity_threshold, k - 1)
             similarity == calculate_image_similarity(user_image_features, stored[k])
         IN  IF RatGeq(similarity, similarity_threshold)
             THEN Append(rest, SimilarImage(stored[k], similarity))
             ELSE rest

\* e goes behind every entry whose similarity is not smaller than its own
InsertBySimilarity(sorted, e) ==
    LET before == {i \in 1..Len(sorted) : ~RatGeq(sorted[i].similarity, e.similarity)}
        at == IF before = {} THEN Len(sorted) + 1
              ELSE CHOOSE i \in before : \A j \in before : i <= j
    IN  SubSeq(sorted, 1, at - 1) \o <<e>> \o SubSeq(sorted, at, Len(sorted))

RECURSIVE SortedUpTo(_, _)
SortedUpTo(similar_images, k) ==
    IF k = 0 THEN <<>>
    ELSE InsertBySimilarity(SortedUpTo(similar_images, k - 1), similar_images[k])

SortBySimilarityOmitted(similar_images) == similar_images

\* similar_images.sort(key=lambda x: x['similarity'], reverse=True): the
\* sort is stable, entries of equal similarity keep their order
SortBySimilarity(similar_images) == SortedUpTo(similar_images, Len(similar_images))

\* similar_images[:3]
TopMatches(similar_images) ==
    SubSeq(similar_images, 1, IF Len(similar_images) < 3 THEN Len(similar_images) ELSE 3)

find_similar_crawled_images(user_image_features, similarity_threshold) ==
    TopMatches(SortBySimilarity(
        SimilarUpTo(user_image_features, crawled_images, similarity_threshold,
                    Len(crawled_images))))

\* the number of stored images the similarity queries run against
MaxStored == 4

PictureNames == <<"a.jpg", "b.jpg", "c.jpg", "d.jpg", "e.jpg">>

\* the entry of crawled_images for the i-th image a crawl stored: what
\* download_and_save_image returns, and the page_url, page_title and alt that
\* extract_content adds
StoredPicture(i, thumb) ==
    [url |-> ROOT_URL \o <<"products", "/", PictureNames[i]>>,
     filename |-> Filename(ROOT_URL \o <<"products", "/", PictureNames[i]>>),
     page_url |-> ROOT_URL, page_title |-> ROOT_URL, alt |-> <<"shoes">>,
     hist_r |-> StoredFeatures(thumb).hist_r,
     hist_g |-> StoredFeatures(thumb).hist_g,
     hist_b |-> StoredFeatures(thumb).hist_b]

\* the thresholds a client posts: the default 0.3 and two others
Thresholds == {Rat(3, 10), Rat(3, 5), One}

\* The threads after a startup crawl: every one is at rest.
AtRest ==
    /\ auto_crawl_on_start = TRUE
    /\ site = SystemSite
    /\ pc = [t \in Threads |-> IF t = "auto" THEN "done" ELSE "idle"]
    /\ handler = [t \in Threads |-> IF t = "auto" THEN "auto" ELSE "none"]
    /\ response = [t \in Threads |-> 0]
    /\ visited = [t \in Threads |-> {}]
    /\ to_visit = [t \in Threads |-> {}]
    /\ results = [t \in Threads |-> <<>>]
    /\ url = [t \in Threads |-> <<>>]
    /\ soup = [t \in Threads |-> LeafDoc]
    /\ img_i = [t \in Threads |-> 0]
    /\ images = [t \in Threads |-> <<>>]
    /\ n = [t \in Threads |-> 0]
    /\ served = [t \in Threads |-> 0]
    /\ query = NoQuery
    /\ answer = <<>>

\* the variables a read request leaves alone
state == <<auto_crawl_on_start, site, corpus, image_files, pc, handler, response,
           locals, served, chat>>

\* The similarity queries run against the images of a finished crawl, one
\* query in a behaviour.
InitImages ==
    /\ AtRest
    /\ NoChat
    /\ crawl_status = Status("completed", 1)
    /\ crawled_data = <<[url |-> ROOT_URL, by |-> "auto", req |-> 0, images |-> <<>>]>>
    /\ \E k \in 0..MaxStored :
          \E thumbs \in [1..k -> Pictures] :
             /\ crawled_images = [i \in 1..k |-> StoredPicture(i, thumbs[i])]
             /\ image_files = {crawled_images[i].filename : i \in 1..k}

\* find_similar_images_api: the features of the uploaded image, then the
\* stored images that are similar to it
FindSimilar ==
    \E thumb \in Pictures, similarity_threshold \in Thresholds :
        /\ query = NoQuery
        /\ query' = [op |-> "find_similar", image |-> thumb,
                     threshold |-> similarity_threshold]
        /\ answer' = find_similar_crawled_images(process_user_image_features(thumb),
                                                 similarity_threshold)
        /\ UNCHANGED state

\* calculate_image_similarity on the features of a stored and of an uploaded
\* image
CompareImages ==
    \E thumb1 \in Pictures, thumb2 \in Pictures :
        /\ query = NoQuery
        /\ query' = [op |-> "similarity", stored |-> thumb1, uploaded |-> thumb2]
        /\ answer' = calculate_image_similarity(StoredFeatures(thumb1),
                                                process_user_image_features(thumb2))
        /\ UNCHANGED state

ImageSpec == InitImages /\ [][FindSimilar]_vars

SimilaritySpec == InitImages /\ [][CompareImages]_vars

\* the similarity of the uploaded image of the query to the k-th stored image
SimilarityTo(k) ==
    calculate_image_similarity(process_user_image_features(query.image), crawled_images[k])

\* the place in crawled_images of the stored image a match r is about
StoredAt(r) == CHOOSE k \in 1..Len(crawled_images) : crawled_images[k].url = r.url

\* C23: find_similar_crawled_images returns at most 3 matches, each a stored
\* image with its similarity, which is at least the threshold; the matches
\* are in order of non-increasing similarity, matches of equal similarity in
\* the order in which the images were stored; and no stored image that is
\* left out is strictly more similar than a returned one.
C23_TopMatchesRanked ==
    query.op = "find_similar" =>
        /\ Len(answer) <= 3
        /\ \A i \in 1..Len(answer) :
              /\ \E k \in 1..Len(crawled_images) : crawled_images[k].url = answer[i].url
              /\ answer[i].similarity = SimilarityTo(StoredAt(answer[i]))
              /\ RatGeq(answer[i].similarity, query.threshold)
        /\ \A i \in 1..Len(answer) : \A j \in 1..Len(answer) :
              i < j => /\ RatGeq(answer[i].similarity, answer[j].similarity)
                       /\ answer[i].similarity = answer[j].similarity
                             => StoredAt(answer[i]) < StoredAt(answer[j])
        /\ \A k \in 1..Len(crawled_images) :
              (\A i \in 1..Len(answer) : StoredAt(answer[i]) # k)
                  => \A i \in 1..Len(answer) : RatGeq(answer[i].similarity, SimilarityTo(k))

\* three of four stored images that pass the threshold are returned: the
\* one stored first is less similar than the others and comes last, two of
\* equal similarity come in the order of storing, and the one left out is
\* as similar as the last returned
C23_Witness ==
    /\ query.op = "find_similar"
    /\ Len(crawled_images) = 4
    /\ Len(answer) = 3
    /\ \A k \in 1..4 : RatGeq(SimilarityTo(k), query.threshold)
    /\ StoredAt(answer[1]) = 3 /\ StoredAt(answer[2]) = 4
    /\ answer[1].similarity = answer[2].similarity
    /\ StoredAt(answer[3]) = 1
    /\ answer[2].similarity # answer[3].similarity
    /\ SimilarityTo(2) = answer[3].similarity

\* C26: the similarity of a feature set to itself is exactly 1.0, for the
\* features of every stored image and of every upload; and a stored image and
\* an upload with the same pixels have equal histograms and similarity 1.0.
C26_SelfSimilarityIsOne ==
    /\ \A k \in 1..Len(crawled_images) :
          calculate_image_similarity(crawled_images[k], crawled_images[k]) = One
    /\ query.op = "similarity" =>
          /\ calculate_image_similarity(process_user_image_features(query.uploaded),
                                        process_user_image_features(query.uploaded)) = One
          /\ query.stored = query.uploaded =>
                /\ StoredFeatures(query.stored) = process_user_image_features(query.uploaded)
                /\ answer = One

\* a stored image has been compared with an upload of the same pixels, whose
\* histograms have a bin that is empty in both
C26_Witness ==
    /\ query.op = "similarity"
    /\ query.stored = query.uploaded
    /\ \E v \in 1..Levels : StoredFeatures(query.stored).hist_r[v] = Zero
    /\ answer = One
    /\ crawled_images # <<>>

\* ------------------------------------------------------------------------
\* Lexical search
\* ------------------------------------------------------------------------

\* A text is the sequence of its characters.
Of      == <<"o", "f">>
RedWord == <<"r", "e", "d">>
Boot    == <<"b", "o", "o", "t">>
Boots   == <<"b", "o", "o", "t", "s">>
Reboots == <<"r", "e", "b", "o", "o", "t", "s">>
Space   == <<" ">>

\* str.lower()
lower(text) ==
    [i \in 1..Len(text) |-> CASE text[i] = "B" -> "b"
                              [] text[i] = "R" -> "r"
                              [] OTHER -> text[i]]

\* str.split(): the maximal runs of characters that are not white space
RECURSIVE split(_)
split(text) ==
    IF text = <<>> THEN <<>>
    ELSE IF text[1] = " " THEN split(Tail(text))
    ELSE LET end == FirstOf(text, {" "}) - 1
         IN  <<SubSeq(text, 1, end)>> \o split(SubSeq(text, end + 1, Len(text)))

\* str.strip()
RECURSIVE strip(_)
strip(text) ==
    IF text = <<>> THEN text
    ELSE IF text[1] = " " THEN strip(Tail(text))
    ELSE IF text[Len(text)] = " " THEN strip(SubSeq(text, 1, Len(text) - 1))
    ELSE text

\* str.find(word), counted from 0, for a word that occurs in the text
find(text, word) ==
    (CHOOSE i \in 1..Len(text) :
        /\ i + Len(word) - 1 <= Len(text)
        /\ SubSeq(text, i, i + Len(word) - 1) = word
        /\ \A j \in 1..(i - 1) : SubSeq(text, j, j + Len(word) - 1) # word) - 1

\* the number of the words among words that contain word or that word
\* contains
PartialMatches(word, words) ==
    Cardinality({i \in 1..Len(words) :
                    Contains(words[i], word) \/ Contains(word, words[i])})

\* The relevance score of a page for the query, counted in halves of a point.
Score(page, query_lower) ==
    LET title == lower(page.title)
        body == lower(page.body)
        query_words == split(query_lower)
        WordPoints(word) ==
            (IF Len(word) > 2
             THEN (IF Contains(title, word) THEN 6 ELSE 0)
                  + (IF Contains(body, word) THEN 2 ELSE 0)
             ELSE 0)
            + (IF Len(word) > 3
               THEN 4 * PartialMatches(word, split(title))
                    + PartialMatches(word, split(body))
               ELSE 0)
        RECURSIVE Points(_)
        Points(k) == IF k = 0 THEN 0 ELSE Points(k - 1) + WordPoints(query_words[k])
    IN  (IF Contains(title, query_lower) THEN 20 ELSE 0)
        + (IF Contains(body, query_lower) THEN 10 ELSE 0)
        + Points(Len(query_words))

\* text[start:end] for 0 <= start and 0 <= end
Slice(text, start, end) == SubSeq(text, start + 1, IF end < Len(text) THEN end ELSE Len(text))

\* the snippet of a page: the longest of the windows around the first
\* occurrence of each query word in the body, else the head of the body
Snippet(body, query_words) ==
    LET Window(word) ==
            LET word_pos == find(body, word)
            IN  strip(Slice(body, IF word_pos - 150 > 0 THEN word_pos - 150 ELSE 0,
                            word_pos + 250))
        RECURSIVE Best(_)
        Best(k) ==
            IF k = 0 THEN <<>>
            ELSE IF /\ Contains(body, query_words[k])
                    /\ Len(Window(query_words[k])) > Len(Best(k - 1))
                 THEN Window(query_words[k])
                 ELSE Best(k - 1)
        best_snippet == Best(Len(query_words))
    IN  IF best_snippet # <<>> THEN best_snippet
        ELSE IF Len(body) > 400 THEN Slice(body, 0, 400) \o <<".", ".", ".">>
        ELSE body

\* the loop of search_in_crawled_data over the first k pages: the pages with
\* a positive score, each with its snippet and its score
RECURSIVE ScoredUpTo(_, _)
ScoredUpTo(query_lower, k) ==
    IF k = 0 THEN <<>>
    ELSE LET rest == ScoredUpTo(query_lower, k - 1)
             page == crawled_data[k]
             score == Score(page, query_lower)
         IN  IF score > 0
             THEN Append(rest, [title |-> page.title, url |-> page.url,
                                snippet |-> Snippet(lower(page.body), split(query_lower)),
                                score |-> score])
             ELSE rest

\* e goes behind every entry whose score is not smaller than its own
InsertByScore(sorted, e) ==
    LET before == {i \in 1..Len(sorted) : sorted[i].score < e.score}
        at == IF before = {} THEN Len(sorted) + 1
              ELSE CHOOSE i \in before : \A j \in before : i <= j
    IN  SubSeq(sorted, 1, at - 1) \o <<e>> \o SubSeq(sorted, at, Len(sorted))

\* scored_results.sort(key=lambda x: x['score'], reverse=True)
RECURSIVE SortByScore(_, _)
SortByScore(scored_results, k) ==
    IF k = 0 THEN <<>>
    ELSE InsertByScore(SortByScore(scored_results, k - 1), scored_results[k])

\* list[:stop]: a negative stop counts from the end of the list
SliceTo(list, stop) ==
    SubSeq(list, 1, IF stop >= Len(list) THEN Len(list)
                    ELSE IF stop >= 0 THEN stop
                    ELSE IF Len(list) + stop > 0 THEN Len(list) + stop
                    ELSE 0)

\* del result['score']
WithoutScore(result) == [title |-> result.title, url |-> result.url,
                         snippet |-> result.snippet]

search_in_crawled_data(search_query, max_results) ==
    IF crawled_data = <<>> THEN <<>>
    ELSE LET scored_results == ScoredUpTo(lower(search_query), Len(crawled_data))
             top == SliceTo(SortByScore(scored_results, Len(scored_results)), max_results)
         IN  [i \in 1..Len(top) |-> WithoutScore(top[i])]

\* the number of pages the searches run against
MaxPages == 3

PageNames == <<"a", "b", "c", "d">>

\* the title and the body of the pages of the searched corpus
PageTexts ==
    {[title |-> <<"R">> \o Tail(RedWord) \o Space \o <<"B">> \o Tail(Boots),
      body |-> Boots \o Space \o Of \o Space \o RedWord],
     [title |-> Reboots, body |-> Boot],
     [title |-> Of, body |-> RedWord],
     [title |-> RedWord, body |-> <<>>]}

\* the page dict crawl_and_scrape appends for the i-th page of a crawl
SearchedPage(i, texts) ==
    [url |-> ROOT_URL \o <<PageNames[i]>>, title |-> texts.title, body |-> texts.body,
     images |-> <<>>]

\* the queries and the max_results values a client posts to /api/search
Queries == {Boots, RedWord \o Space \o Boots, Of, Boot}
MaxResultsValues == {-1, 0, 2, 5}

\* The searches run against the pages of a finished crawl, one search in a
\* behaviour.
InitSearch ==
    /\ AtRest
    /\ NoChat
    /\ crawled_images = <<>>
    /\ image_files = {}
    /\ \E k \in 0..MaxPages :
          \E texts \in [1..k -> PageTexts] :
             /\ crawled_data = [i \in 1..k |-> SearchedPage(i, texts[i])]
             /\ crawl_status = IF k = 0 THEN Status("failed", -1)
                               ELSE Status("completed", k)

\* search_in_crawled_data, as the chat and /api/search call it
Search ==
    \E search_query \in Queries, max_results \in MaxResultsValues :
        /\ query = NoQuery
        /\ query' = [op |-> "search", text |-> search_query, max_results |-> max_results]
        /\ answer' = search_in_crawled_data(search_query, max_results)
        /\ UNCHANGED state

SearchSpec == InitSearch /\ [][Search]_vars

\* the score of the page a returned entry r is about, for the query of the
\* search
ScoreOf(r) ==
    Score(crawled_data[CHOOSE k \in 1..Len(crawled_data) : crawled_data[k].url = r.url],
          lower(query.text))

\* C24: every entry search_in_crawled_data returns is about a page of the
\* corpus whose score is positive, the entries are in order of non-increasing
\* score, there are at most max_results of them (none when max_results is
\* below zero), and none has a score field.
C24_SearchResults ==
    query.op = "search" =>
        /\ \A i \in 1..Len(answer) :
              /\ \E k \in 1..Len(crawled_data) : crawled_data[k].url = answer[i].url
              /\ ScoreOf(answer[i]) > 0
              /\ "score" \notin DOMAIN answer[i]
        /\ \A i \in 1..Len(answer) : \A j \in 1..Len(answer) :
              i < j => ScoreOf(answer[i]) >= ScoreOf(answer[j])
        /\ Len(answer) <= (IF query.max_results > 0 THEN query.max_results ELSE 0)

\* ------------------------------------------------------------------------
\* The classifier and the URL normalisation, applied to given arguments
\* ------------------------------------------------------------------------

\* the image URLs, alt texts and page contexts the classifier is applied to
ClassifiedUrls ==
    {ROOT_URL \o <<"products", "/", "p.jpg">>,
     ROOT_URL \o <<"products", "/", "logo.png">>,
     ROOT_URL \o <<"static", "/", "logo", "/", "products", "/", "p.jpg">>,
     ROOT_URL \o <<"img", "/", "x.gif">>,
     ROOT_URL \o <<"img", "/", "300x300", "/", "p.jpg">>,
     ROOT_URL \o <<"products">>}
ClassifiedAlts == {<<>>, <<"shoes">>, <<"logo-header">>, <<"sale">>, <<"shoes", "sale">>}
ClassifiedContexts == {<<>>, <<"shop">>, <<"sale">>, <<"shop", "sale">>}

\* the bases normalize_url is called with: ROOT_URL as the environment sets
\* it, with or without a fragment, and page URLs found by a crawl
NormalizedBases ==
    {ROOT_URL, ROOT_URL \o <<"#", "f">>, ROOT_URL \o <<"a">>, ROOT_URL \o <<"a", "/", "b">>}

\* the href values of anchors: up to two of these tokens
HrefTokens == {"a", "/", "#", "f", "//", "https:", "kako.mn", "["}
Hrefs == {<<>>} \cup {<<x>> : x \in HrefTokens}
                \cup {<<x, y>> : x \in HrefTokens, y \in HrefTokens}

InitFunctions ==
    /\ AtRest
    /\ NoChat
    /\ crawl_status = Status("failed", -1)
    /\ crawled_data = <<>>
    /\ crawled_images = <<>>
    /\ image_files = {}

\* is_product_image(img_url, alt_text, page_context)
Classify ==
    \E img_url \in ClassifiedUrls, alt_text \in ClassifiedAlts,
       page_context \in ClassifiedContexts :
        /\ query = NoQuery
        /\ query' = [op |-> "classify", img_url |-> img_url, alt_text |-> alt_text,
                     page_context |-> page_context]
        /\ answer' = is_product_image(img_url, alt_text, page_context)
        /\ UNCHANGED state

\* normalize_url(base, link), which raises where urljoin does
Normalize ==
    \E base \in NormalizedBases, link \in Hrefs :
        /\ query = NoQuery
        /\ query' = [op |-> "normalize", base |-> base, link |-> link,
                     raises |-> urljoinRaises(base, SplitHash(link))]
        /\ answer' = IF urljoinRaises(base, SplitHash(link)) THEN <<>>
                     ELSE normalize_url(base, link)
        /\ UNCHANGED state

ClassifySpec == InitFunctions /\ [][Classify]_vars

NormalizeSpec == InitFunctions /\ [][Normalize]_vars

\* a skip pattern occurs in the image URL or the alt text of the query
Denied ==
    \E pattern \in skip_patterns :
        Mentions(query.img_url, pattern) \/ Mentions(query.alt_text, pattern)

\* C25: the classifier returns False for an image whose URL or alt text
\* contains a skip pattern, whatever its score; for every other image it
\* returns True exactly if the score is at least 3.
C25_DenyFirst ==
    query.op = "classify" =>
        /\ Denied => answer = FALSE
        /\ ~Denied => answer = (product_score(query.img_url, query.alt_text,
                                              query.page_context) >= 3)

\* an image with the alt text "logo-header" under /static/logo/ whose score
\* is above the threshold has been rejected
C25_Witness ==
    /\ query.op = "classify"
    /\ Contains(query.img_url, <<"/", "static", "/", "logo", "/">>)
    /\ query.alt_text = <<"logo-header">>
    /\ product_score(query.img_url, query.alt_text, query.page_context) >= 3
    /\ answer = FALSE

\* C27: the URL normalize_url returns has no fragment, and normalising it
\* again against the same base returns it unchanged.
C27_NormalizeIdempotent ==
    (query.op = "normalize" /\ ~query.raises) =>
        /\ "#" \notin Range(answer)
        /\ ~urljoinRaises(query.base, SplitHash(answer))
        /\ normalize_url(query.base, answer) = answer

\* C28: the frontier and the visited set of a crawl are disjoint, at the head
\* of every iteration and in between; an iteration pops a URL that is not
\* visited and marks it, so that the skip of a visited URL is not taken; and
\* the anchor loop adds only URLs that are not visited.
C28_FrontierUnvisited ==
    /\ [](\A t \in Threads : to_visit[t] \cap visited[t] = {})
    /\ [][\A t \in Threads :
            /\ (pc[t] = "loop" /\ pc'[t] \in {"loop", "extract"}
                               /\ to_visit'[t] # to_visit[t])
                  => \E u \in to_visit[t] \ visited[t] :
                        /\ to_visit'[t] = to_visit[t] \ {u}
                        /\ visited'[t] = visited[t] \cup {u}
            /\ RecordPage(t)
                  => /\ to_visit[t] \subseteq to_visit'[t]
                     /\ (to_visit'[t] \ to_visit[t]) \cap visited[t] = {}]_vars

\* a crawl is at the head of an iteration with URLs in its frontier, after a
\* page with a link to a visited URL, which was not added
C28_Witness ==
    \E t \in Threads :
        /\ pc[t] = "loop"
        /\ to_visit[t] # {}
        /\ results[t] # <<>>
        /\ \E h \in soup[t].links :
              /\ ~is_internal_link_raises(h) /\ is_internal_link(h)
              /\ InScope(normalize_url(url[t], h))
              /\ normalize_url(url[t], h) \in visited[t]

\* C29: no step taken while a pass is running changes crawled_data; a step
\* that changes it is the assignment by which a pass that has left its loop
\* hands over its complete list of pages, once; a step of the crawl changes
\* crawled_images by appending one entry.
C29_CorpusSwappedWhole ==
    [][/\ \A t \in Threads : (InPass(t) /\ InPass(t)') => crawled_data' = crawled_data
       /\ crawled_data' # crawled_data
             => \E t \in Threads :
                   /\ pc[t] = "loop" /\ pc'[t] = "check"
                   /\ ~LoopGuard(to_visit[t], visited[t])
                   /\ crawled_data' = results[t]
       /\ \A t \in Threads :
             (CrawlStep(t) /\ crawled_images' # crawled_images)
                 => /\ Len(crawled_images') = Len(crawled_images) + 1
                    /\ SubSeq(crawled_images', 1, Len(crawled_images)) = crawled_images]_vars

\* C30: whenever the status is "completed" the corpus is not empty and the
\* pages_count of the status is the length of crawled_data.
C30_CompletedMatchesCorpus ==
    crawl_status.status = "completed"
        => /\ crawled_data # <<>>
           /\ crawl_status.pages_count = Len(crawled_data)

\* ------------------------------------------------------------------------
\* The conversation memory
\* ------------------------------------------------------------------------

\* the number of chat and clear requests served in a behaviour
MaxCalls == 5

\* the conversation ids of the webhook and of the clear route
ConversationIds == {1, 2}

\* the text of the k-th request and the text the model generates for it; a
\* text is a sequence of tokens
MessageNames == <<"m1", "m2", "m3", "m4", "m5", "m6", "m7">>
ReplyNames   == <<"r1", "r2", "r3", "r4", "r5", "r6", "r7">>

\* the texts get_ai_response returns when it has no reply of the model
ErrorTexts == {<<"no client">>, <<"empty message">>, <<"image error">>, <<"model error">>}

\* no trimming of the list
keep_all(messages) == messages

\* Keep only last 8 messages: the slice [-8:] of a list of more than 8
keep_last(messages) ==
    IF Len(messages) > 8 THEN SubSeq(messages, Len(messages) - 8 + 1, Len(messages))
    ELSE messages

\* Store in memory: the list of the conversation, created when the id is not
\* a key, with the two messages appended and then trimmed
store(memory, conversation_id, user_content, ai_response) ==
    LET history == IF conversation_id \in DOMAIN memory THEN memory[conversation_id]
                   ELSE <<>>
        appended == history \o <<[role |-> "user", content |-> user_content],
                                 [role |-> "assistant", content |-> ai_response]>>
    IN  [c \in DOMAIN memory \cup {conversation_id} |->
            IF c = conversation_id THEN keep_last(appended) ELSE memory[c]]

\* get_ai_response(user_message, conversation_id, context_data, image_data)
\* with a memory and the outcome of generate_content: what it returns and
\* the memory it leaves. image_data is None, or the bytes of an attachment,
\* from which types.Part.from_bytes builds a part or raises. A prompt stands
\* for an empty message with an image, and the stored message of a request
\* with an image ends with a note.
get_ai_response(memory, user_message, conversation_id, image_data, generated) ==
    LET empty == user_message = <<>> \/ strip(user_message) = <<>>
        message == IF empty THEN <<"what is in this image?">> ELSE user_message
        user_content == IF image_data # "None" THEN message \o <<" [image attached]">>
                        ELSE message
    IN  IF ~client THEN [returns |-> <<"no client">>, memory |-> memory]
        ELSE IF empty /\ image_data = "None"
        THEN [returns |-> <<"empty message">>, memory |-> memory]
        ELSE IF image_data = "bad image"
        THEN [returns |-> <<"image error">>, memory |-> memory]
        ELSE IF generated.raises
        THEN [returns |-> <<"model error">>, memory |-> memory]
        ELSE [returns |-> generated.text,
              memory |-> store(memory, conversation_id, user_content, generated.text)]

\* the number of requests taken so far
Calls == served["w1"] + served["w2"]

\* The chat runs before any crawl, with or without a client.
InitMemory ==
    /\ AtRest
    /\ crawl_status = Status("failed", -1)
    /\ crawled_data = <<>>
    /\ crawled_images = <<>>
    /\ image_files = {}
    /\ client \in BOOLEAN
    /\ conversation_memory = [c \in {} |-> <<>>]

\* chatwoot_webhook's call of get_ai_response, run to its return;
\* generate_content raises or returns the text of a reply
GetAiResponse(t) ==
    \E user_message \in {<<>>, Space, <<MessageNames[Calls + 1]>>},
       conversation_id \in ConversationIds,
       image_data \in {"None", "image", "bad image"},
       generated \in {[raises |-> TRUE, text |-> <<>>],
                      [raises |-> FALSE, text |-> <<ReplyNames[Calls + 1]>>]} :
        LET call == get_ai_response(conversation_memory, user_message,
                                    conversation_id, image_data, generated)
        IN  /\ Calls < MaxCalls
            /\ served' = [served EXCEPT ![t] = @ + 1]
            /\ query' = [op |-> "chat", conversation_id |-> conversation_id,
                         user_message |-> user_message, image_data |-> image_data]
            /\ answer' = call.returns
            /\ conversation_memory' = call.memory
            /\ UNCHANGED <<auto_crawl_on_start, site, corpus, image_files, pc, handler,
                           response, locals, client>>

\* clear_conversation_memory(conv_id)
ClearConversationMemory(t) ==
    \E conv_id \in ConversationIds :
        /\ Calls < MaxCalls
        /\ served' = [served EXCEPT ![t] = @ + 1]
        /\ query' = [op |-> "clear", conversation_id |-> conv_id]
        /\ answer' = <<"cleared">>
        /\ conversation_memory' =
              [c \in DOMAIN conversation_memory \ {conv_id} |-> conversation_memory[c]]
        /\ UNCHANGED <<auto_crawl_on_start, site, corpus, image_files, pc, handler,
                       response, locals, client>>

\* The requests are served one after another, each run to its return before
\* the next is taken; worker w1 stands for the thread that serves them.
MemorySpec ==
    InitMemory /\ [][GetAiResponse("w1") \/ ClearConversationMemory("w1")]_vars

\* C31: the memory of every conversation holds at most 8 messages, in pairs
\* of a user message and the assistant reply to it; a call of get_ai_response
\* that returns a reply leaves, in the memory of its conversation, the last
\* messages of the old memory in their order, followed by the user message
\* and the reply, and leaves the other conversations alone; a call that
\* returns without a reply (no client, empty message, image or model error)
\* leaves every memory unchanged; clearing a conversation leaves the memory
\* of every other conversation unchanged.
C31_MemoryKeepsLastEight ==
    /\ [](\A c \in DOMAIN conversation_memory :
             /\ Len(conversation_memory[c]) <= 8
             /\ Len(conversation_memory[c]) % 2 = 0
             /\ \A i \in 1..Len(conversation_memory[c]) :
                   conversation_memory[c][i].role =
                       IF i % 2 = 1 THEN "user" ELSE "assistant")
    /\ [][LET c == query'.conversation_id
              old == IF c \in DOMAIN conversation_memory
                     THEN conversation_memory[c] ELSE <<>>
              new == conversation_memory'[c]
              OthersKept ==
                  \A k \in ConversationIds \ {c} :
                      /\ k \in DOMAIN conversation_memory' <=> k \in DOMAIN conversation_memory
                      /\ k \in DOMAIN conversation_memory
                            => conversation_memory'[k] = conversation_memory[k]
          IN  /\ (query'.op = "chat" /\ answer' \in ErrorTexts)
                    => conversation_memory' = conversation_memory
              /\ (query'.op = "chat" /\ answer' \notin ErrorTexts)
                    => /\ c \in DOMAIN conversation_memory'
                       /\ Len(new) = (IF Len(old) + 2 > 8 THEN 8 ELSE Len(old) + 2)
                       /\ new[Len(new)] = [role |-> "assistant", content |-> answer']
                       /\ new[Len(new) - 1].role = "user"
                       /\ strip(query'.user_message) # <<>>
                             => SubSeq(new[Len(new) - 1].content, 1,
                                       Len(query'.user_message)) = query'.user_message
                       /\ \A i \in 1..(Len(new) - 2) :
                             new[i] = old[i + Len(old) + 2 - Len(new)]
                       /\ OthersKept
              /\ query'.op = "clear" => OthersKept]_vars

\* a fifth exchange of one conversation has been stored: the memory holds the
\* second to the fifth, and the first is gone
C31_Witness ==
    /\ query.op = "chat"
    /\ answer = <<ReplyNames[5]>>
    /\ LET list == conversation_memory[query.conversation_id]
       IN  /\ Len(list) = 8
           /\ list[2].content = <<ReplyNames[2]>>
           /\ list[8].content = answer

====
